---- MODULE Spec2Model ----
(***************************************************************************)
(* body_validator (src/index.ts): a validator combinator library.          *)
(*                                                                         *)
(* A validator is a pair of closures is_valid(input) and                   *)
(* get_messages(input, name).  The only mutable state the library touches  *)
(* is the lastIndex slot of the RegExp objects captured by regex           *)
(* validators (RegExp.prototype.test advances or resets it when the        *)
(* regex carries the g flag).  The state machine below performs            *)
(* is_valid / get_messages calls, one after the other, on validators built *)
(* from the exported primitives and combinators, threading lastIndex        *)
(* through every nested call in the order the code makes them.             *)
(***************************************************************************)
EXTENDS Integers, Sequences, FiniteSets, TLC

VARIABLES schema, body, lastIndex, call

vars == <<schema, body, lastIndex, call>>

(***************************************************************************)
(* Bounds of the model.                                                    *)
(***************************************************************************)
MaxArrayLen == 2
MaxObjKeys == 2

(***************************************************************************)
(* JavaScript values.  Numbers are kept in tenths (30 is 3, 34 is 3.4) so  *)
(* that a fractional part exists.  An object is its own enumerable string  *)
(* keys in Object.keys order with the values beside them.                  *)
(***************************************************************************)
Undefined == [t |-> "undefined"]
Null == [t |-> "null"]
Bool(b) == [t |-> "boolean", b |-> b]
Num(n) == [t |-> "number", n |-> n]
Str(s) == [t |-> "string", s |-> s]
Arr(items) == [t |-> "array", items |-> items]
Obj(keys, vals) == [t |-> "object", keys |-> keys, vals |-> vals]
Fn == [t |-> "function"]

\* typeof input
TypeOf(x) ==
  CASE x.t = "null" -> "object"
    [] x.t = "array" -> "object"
    [] OTHER -> x.t

\* !!input
Truthy(x) ==
  CASE x.t = "undefined" -> FALSE
    [] x.t = "null" -> FALSE
    [] x.t = "boolean" -> x.b
    [] x.t = "number" -> x.n # 0
    [] x.t = "string" -> x.s # ""
    [] OTHER -> TRUE

\* The members every plain object and array inherits from Object.prototype
\* (all of them functions); `key in obj` and obj[key] see them.
ObjectPrototypeKeys ==
  {"constructor", "toString", "valueOf", "hasOwnProperty", "toLocaleString",
   "isPrototypeOf", "propertyIsEnumerable"}

\* The characters of the strings the model uses (TLC strings are atomic).
Chars(s) ==
  CASE s = "" -> <<>>
    [] s = "a" -> <<"a">>
    [] s = "b" -> <<"b">>
    [] s = "Superman" -> <<"S", "u", "p", "e", "r", "m", "a", "n">>

RECURSIVE Join(_, _)
\* Array.prototype.join on an array of strings
Join(strs, sep) ==
  IF Len(strs) = 0 THEN ""
  ELSE IF Len(strs) = 1 THEN strs[1]
  ELSE strs[1] \o sep \o Join(Tail(strs), sep)

\* Number -> string, for numbers >= 0 with at most one decimal
NumToString(n) ==
  IF n % 10 = 0 THEN ToString(n \div 10)
  ELSE ToString(n \div 10) \o "." \o ToString(n % 10)

\* `${ value }` : template-literal conversion of a value
TemplateString(x) ==
  CASE x.t = "undefined" -> "undefined"
    [] x.t = "null" -> "null"
    [] x.t = "boolean" -> (IF x.b THEN "true" ELSE "false")
    [] x.t = "number" -> NumToString(x.n)
    [] x.t = "string" -> x.s
    [] x.t = "object" -> "[object Object]"

double_quote(str) == "\"" \o str \o "\""

is_string(x) == TypeOf(x) = "string"

is_number(x) == TypeOf(x) = "number"

\* Number.isInteger(input)
is_integer(x) == TypeOf(x) = "number" /\ x.n % 10 = 0

is_boolean(x) == TypeOf(x) = "boolean"

is_object(x) == Truthy(x) /\ TypeOf(x) = "object"

\* Array.isArray(input)
IsArray(x) == x.t = "array"

\* Object.keys(object): an array's keys are its indices
keys_plz(x) ==
  IF x.t = "array" THEN [i \in 1..Len(x.items) |-> ToString(i - 1)]
  ELSE x.keys

\* Object.values(object) written as Object.keys(object): the slip the
\* agreement of object_values with array on the values must catch
values_plz_as_keys(x) == [i \in 1..Len(keys_plz(x)) |-> Str(keys_plz(x)[i])]

\* Object.values(object)
values_plz(x) == IF x.t = "array" THEN x.items ELSE x.vals

Range(seq) == {seq[i] : i \in 1..Len(seq)}

IndexOf(seq, e) == CHOOSE i \in 1..Len(seq) : seq[i] = e

\* input[key]: an own property, else what the prototype chain gives
Get(x, key) ==
  IF key \in Range(keys_plz(x)) THEN values_plz(x)[IndexOf(keys_plz(x), key)]
  ELSE IF x.t = "array" /\ key = "length" THEN Num(10 * Len(x.items))
  ELSE IF key \in ObjectPrototypeKeys THEN Fn
  ELSE Undefined

(***************************************************************************)
(* The RegExp objects handed to v.regex.  A source is a single literal     *)
(* character; flags is "" or "g".                                          *)
(***************************************************************************)
RegExps ==
  [plain |-> [source |-> "a", flags |-> ""],
   glob |-> [source |-> "a", flags |-> "g"]]

RegExpIds == DOMAIN RegExps

\* regex.toString()
RegExpToString(re) == "/" \o RegExps[re].source \o "/" \o RegExps[re].flags

Min(S) == CHOOSE m \in S : \A k \in S : m <= k

\* regex.test(input): a g regex searches from lastIndex, leaves lastIndex
\* after the match, and resets it to 0 when nothing matches; without g the
\* search starts at 0 and lastIndex is left alone.
RegExpTest(re, s, li) ==
  LET global == RegExps[re].flags = "g"
      start == IF global THEN li[re] ELSE 0
      cs == Chars(s)
      hits == {i \in start..(Len(cs) - 1) : cs[i + 1] = RegExps[re].source}
  IN  IF hits = {}
      THEN [ok |-> FALSE, li |-> IF global THEN [li EXCEPT ![re] = 0] ELSE li]
      ELSE [ok |-> TRUE,
            li |-> IF global THEN [li EXCEPT ![re] = Min(hits) + 1] ELSE li]

(***************************************************************************)
(* Validators, as the trees the exported constructors build.               *)
(***************************************************************************)
string_validator == [k |-> "string"]
number_validator == [k |-> "number"]
integer_validator == [k |-> "integer"]
boolean_validator == [k |-> "boolean"]
null_validator == [k |-> "null"]
undefined_validator == [k |-> "undefined"]
make_exact_validator(value) == [k |-> "exact", value |-> value]
make_regex_validator(re, custom_message) ==
  [k |-> "regex", re |-> re, custom_message |-> custom_message]
\* shape: the declared property names in declaration order, and their validators
make_object_validator(keys, validators) ==
  [k |-> "object", keys |-> keys, validators |-> validators]
make_array_validator(element_validator) ==
  [k |-> "array", element_validator |-> element_validator]
make_object_values_validator(element_validator) ==
  [k |-> "object_values", element_validator |-> element_validator]
one_of(validators) == [k |-> "one_of", validators |-> validators]
nullable(validator) == one_of(<<validator, null_validator>>)
\* optional built on null_validator, as nullable is: the slip the
\* undefined/null distinction must catch
optional_as_nullable(validator) == one_of(<<validator, null_validator>>)
optional(validator) == one_of(<<validator, undefined_validator>>)

\* key in shape
KeyInShape(key, shape) ==
  key \in Range(shape.keys) \/ key \in ObjectPrototypeKeys

\* input === value, for a captured value that is a primitive
StrictEquals(input, value) ==
  IF input.t \in {"array", "object", "function"} THEN FALSE ELSE input = value

(***************************************************************************)
(* is_valid and get_messages.  Each takes the lastIndex slots as they are  *)
(* when the call starts and returns its result with the slots as the call  *)
(* leaves them; nested calls are made in the order the code makes them     *)
(* (Array.prototype.every and some stop at the first deciding element).    *)
(***************************************************************************)
RECURSIVE is_valid(_, _, _)
RECURSIVE get_messages(_, _, _, _)
RECURSIVE EveryElement(_, _, _, _)
RECURSIVE EveryShapeKey(_, _, _, _)
RECURSIVE SomeValidator(_, _, _, _)
RECURSIVE FilterRejecting(_, _, _, _)
RECURSIVE FlatMapValidators(_, _, _, _, _)
RECURSIVE FlatMapElements(_, _, _, _, _)
RECURSIVE FlatMapShapeKeys(_, _, _, _)

\* input.every(element_validator.is_valid), from element i on
EveryElement(element_validator, items, i, li) ==
  IF i > Len(items) THEN [ok |-> TRUE, li |-> li]
  ELSE LET r == is_valid(element_validator, items[i], li)
       IN  IF r.ok THEN EveryElement(element_validator, items, i + 1, r.li)
           ELSE [ok |-> FALSE, li |-> r.li]

\* keys_plz(shape).every(key => shape[key].is_valid(input[key])), from key i on
EveryShapeKey(shape, input, i, li) ==
  IF i > Len(shape.keys) THEN [ok |-> TRUE, li |-> li]
  ELSE LET r == is_valid(shape.validators[i], Get(input, shape.keys[i]), li)
       IN  IF r.ok THEN EveryShapeKey(shape, input, i + 1, r.li)
           ELSE [ok |-> FALSE, li |-> r.li]

\* validators.some(validator => validator.is_valid(input)), from validator i on
SomeValidator(validators, input, i, li) ==
  IF i > Len(validators) THEN [ok |-> FALSE, li |-> li]
  ELSE LET r == is_valid(validators[i], input, li)
       IN  IF r.ok THEN [ok |-> TRUE, li |-> r.li]
           ELSE SomeValidator(validators, input, i + 1, r.li)

\* validators.filter(validator => !validator.is_valid(input)), from validator i on
FilterRejecting(validators, input, i, li) ==
  IF i > Len(validators) THEN [kept |-> <<>>, li |-> li]
  ELSE LET r == is_valid(validators[i], input, li)
           rest == FilterRejecting(validators, input, i + 1, r.li)
       IN  [kept |-> IF r.ok THEN rest.kept ELSE <<validators[i]>> \o rest.kept,
            li |-> rest.li]

\* validators.flatMap(validator => validator.get_messages(input, name))
FlatMapValidators(validators, input, name, i, li) ==
  IF i > Len(validators) THEN [msgs |-> <<>>, li |-> li]
  ELSE LET r == get_messages(validators[i], input, name, li)
           rest == FlatMapValidators(validators, input, name, i + 1, r.li)
       IN  [msgs |-> r.msgs \o rest.msgs, li |-> rest.li]

\* input.flatMap((element, index) =>
\*     element_validator.get_messages(element, `${ name }[${ index }]`))
FlatMapElements(element_validator, items, name, i, li) ==
  IF i > Len(items) THEN [msgs |-> <<>>, li |-> li]
  ELSE LET r == get_messages(element_validator, items[i],
                             name \o "[" \o ToString(i - 1) \o "]", li)
           rest == FlatMapElements(element_validator, items, name, i + 1, r.li)
       IN  [msgs |-> r.msgs \o rest.msgs, li |-> rest.li]

\* keys_plz(shape).flatMap(key => shape[key].get_messages(input[key], key))
FlatMapShapeKeys(shape, input, i, li) ==
  IF i > Len(shape.keys) THEN [msgs |-> <<>>, li |-> li]
  ELSE LET r == get_messages(shape.validators[i], Get(input, shape.keys[i]),
                             shape.keys[i], li)
           rest == FlatMapShapeKeys(shape, input, i + 1, r.li)
       IN  [msgs |-> r.msgs \o rest.msgs, li |-> rest.li]

\* keys_plz(input).filter(key => !(key in shape))
keys_that_dont_exist_in_shape(shape, input) ==
  SelectSeq(keys_plz(input), LAMBDA key : ~KeyInShape(key, shape))

\* a primitive's get_messages: no message when the test passes, else one
OneMessageUnless(pass, message, li) ==
  [msgs |-> IF pass THEN <<>> ELSE <<message>>, li |-> li]

\* make_object_validator(shape).is_valid
object_is_valid(shape, input, li) ==
  IF ~is_object(input) THEN [ok |-> FALSE, li |-> li]
  ELSE IF ~(\A key \in Range(keys_plz(input)) : KeyInShape(key, shape))
  THEN [ok |-> FALSE, li |-> li]
  ELSE EveryShapeKey(shape, input, 1, li)

\* make_object_validator(shape).get_messages
object_get_messages(shape, input, name, li) ==
  LET quoted_name == double_quote(name)
  IN  IF ~is_object(input)
      THEN [msgs |-> <<quoted_name \o " is not an object">>, li |-> li]
      ELSE LET unknown == keys_that_dont_exist_in_shape(shape, input)
               property_messages == FlatMapShapeKeys(shape, input, 1, li)
           IN  [msgs |->
                  [i \in 1..Len(unknown) |->
                     quoted_name \o " should not have a property named "
                       \o double_quote(unknown[i]) \o " "]
                  \o [i \in 1..Len(property_messages.msgs) |->
                        quoted_name \o "." \o property_messages.msgs[i]],
                li |-> property_messages.li]

\* make_array_validator(element_validator).is_valid
array_is_valid(element_validator, input, li) ==
  IF ~IsArray(input) THEN [ok |-> FALSE, li |-> li]
  ELSE EveryElement(element_validator, input.items, 1, li)

\* make_array_validator(element_validator).get_messages
array_get_messages(element_validator, input, name, li) ==
  IF ~IsArray(input)
  THEN [msgs |-> <<double_quote(name) \o " is not an array">>, li |-> li]
  ELSE FlatMapElements(element_validator, input.items, name, 1, li)

\* make_object_values_validator(element_validator).is_valid
object_values_is_valid(element_validator, input, li) ==
  IF ~is_object(input) THEN [ok |-> FALSE, li |-> li]
  ELSE array_is_valid(element_validator, Arr(values_plz(input)), li)

\* make_object_values_validator(element_validator).get_messages
object_values_get_messages(element_validator, input, name, li) ==
  IF ~is_object(input)
  THEN [msgs |-> <<double_quote(name) \o " is not an object">>, li |-> li]
  ELSE array_get_messages(element_validator, Arr(values_plz(input)), name, li)

\* one_of(...validators).is_valid
one_of_is_valid(validators, input, li) == SomeValidator(validators, input, 1, li)

\* one_of(...validators).get_messages
one_of_get_messages(validators, input, name, li) ==
  LET valid == one_of_is_valid(validators, input, li)
  IN  IF ~valid.ok
      THEN LET rejecting == FilterRejecting(validators, input, 1, valid.li)
               messages == FlatMapValidators(rejecting.kept, input, name, 1,
                                             rejecting.li)
           IN  [msgs |-> <<double_quote(name) \o ": "
                             \o Join(messages.msgs, ", or ")>>,
                li |-> messages.li]
      ELSE [msgs |-> <<>>, li |-> valid.li]

\* make_regex_validator(regex, custom_message).is_valid
regex_is_valid(re, input, li) ==
  IF TypeOf(input) = "string" THEN RegExpTest(re, input.s, li)
  ELSE [ok |-> FALSE, li |-> li]

\* make_regex_validator(regex, custom_message).get_messages
regex_get_messages(re, custom_message, input, name, li) ==
  LET tested == regex_is_valid(re, input, li)
  IN  [msgs |-> IF ~tested.ok
                THEN <<IF Truthy(custom_message) THEN custom_message.s
                       ELSE double_quote(name)
                              \o " should be a string that matches "
                              \o double_quote(RegExpToString(re))>>
                ELSE <<>>,
       li |-> tested.li]

\* make_exact_validator(value).get_messages
exact_get_messages(value, input, name, li) ==
  OneMessageUnless(StrictEquals(input, value),
                   double_quote(name) \o " should be \""
                     \o TemplateString(value) \o "\"", li)

\* integer_validator.get_messages
integer_get_messages(input, name, li) ==
  OneMessageUnless(is_number(input),
                   double_quote(name) \o " is not an integer", li)

is_valid(v, input, li) ==
  CASE v.k = "string" -> [ok |-> is_string(input), li |-> li]
    [] v.k = "number" -> [ok |-> is_number(input), li |-> li]
    [] v.k = "integer" -> [ok |-> is_integer(input), li |-> li]
    [] v.k = "boolean" -> [ok |-> is_boolean(input), li |-> li]
    [] v.k = "null" -> [ok |-> input = Null, li |-> li]
    [] v.k = "undefined" -> [ok |-> input = Undefined, li |-> li]
    [] v.k = "exact" -> [ok |-> StrictEquals(input, v.value), li |-> li]
    [] v.k = "regex" -> regex_is_valid(v.re, input, li)
    [] v.k = "object" -> object_is_valid(v, input, li)
    [] v.k = "array" -> array_is_valid(v.element_validator, input, li)
    [] v.k = "object_values" ->
         object_values_is_valid(v.element_validator, input, li)
    [] v.k = "one_of" -> one_of_is_valid(v.validators, input, li)

get_messages(v, input, name, li) ==
  CASE v.k = "string" ->
         OneMessageUnless(is_string(input),
                          double_quote(name) \o " is not a string", li)
    [] v.k = "number" ->
         OneMessageUnless(is_number(input),
                          double_quote(name) \o " is not a number", li)
    [] v.k = "integer" -> integer_get_messages(input, name, li)
    [] v.k = "boolean" ->
         OneMessageUnless(is_boolean(input),
                          double_quote(name) \o " is not a boolean", li)
    [] v.k = "null" ->
         OneMessageUnless(input = Null,
                          double_quote(name) \o " should be null", li)
    [] v.k = "undefined" ->
         OneMessageUnless(input = Undefined,
                          double_quote(name) \o " should be undefined", li)
    [] v.k = "exact" -> exact_get_messages(v.value, input, name, li)
    [] v.k = "regex" ->
         regex_get_messages(v.re, v.custom_message, input, name, li)
    [] v.k = "object" -> object_get_messages(v, input, name, li)
    [] v.k = "array" ->
         array_get_messages(v.element_validator, input, name, li)
    [] v.k = "object_values" ->
         object_values_get_messages(v.element_validator, input, name, li)
    [] v.k = "one_of" -> one_of_get_messages(v.validators, input, name, li)

(***************************************************************************)
(* The inputs and the validators the calls are drawn from.                 *)
(***************************************************************************)
SeqsUpTo(S, n) == UNION {[1..m -> S] : m \in 0..n}

Atoms ==
  {Undefined, Null, Bool(TRUE), Num(30), Num(34), Str("a"), Str("b")}

ArrayElements == {Str("a"), Num(30), Undefined}

Arrays == {Arr(items) : items \in SeqsUpTo(ArrayElements, MaxArrayLen)}

InputKeys == {"name", "extra", "toString"}

ObjectValues == {Str("a"), Num(30)}

KeySeqs ==
  {ks \in SeqsUpTo(InputKeys, MaxObjKeys) :
     \A i, j \in 1..Len(ks) : i # j => ks[i] # ks[j]}

Objects ==
  UNION {{Obj(ks, vs) : vs \in [1..Len(ks) -> ObjectValues]} : ks \in KeySeqs}

Superman == Obj(<<"name">>, <<Str("Superman")>>)

NestedInputs ==
  {Superman,
   Obj(<<"name", "age">>, <<Str("a"), Undefined>>),
   Obj(<<"name", "age">>, <<Str("a"), Num(34)>>),
   Arr(<<Obj(<<"name">>, <<Str("a")>>), Obj(<<"name">>, <<Num(30)>>)>>)}

Inputs == Atoms \cup Arrays \cup Objects \cup NestedInputs

Names == {"n", "input"}

NoMessage == Undefined

PlainRegex == make_regex_validator("plain", NoMessage)

GlobalRegex == make_regex_validator("glob", NoMessage)

Primitives ==
  {string_validator, number_validator, integer_validator, boolean_validator,
   null_validator, make_exact_validator(Str("a")), make_exact_validator(Num(30)),
   PlainRegex, GlobalRegex,
   make_regex_validator("glob", Str("ya did wrong by me")),
   make_regex_validator("plain", Str(""))}

PersonShape ==
  make_object_validator(<<"name", "age">>,
                        <<string_validator, optional(number_validator)>>)

\* object({name: string, age: number, cool: optional(boolean), powers: array(string)})
HeroShape ==
  make_object_validator(<<"name", "age", "cool", "powers">>,
                        <<string_validator, number_validator,
                          optional(boolean_validator),
                          make_array_validator(string_validator)>>)

ObjectValidators ==
  {make_object_validator(<<>>, <<>>),
   make_object_validator(<<"name">>, <<string_validator>>),
   PersonShape,
   HeroShape,
   make_object_validator(<<"toString">>, <<optional(string_validator)>>),
   make_object_validator(<<"name", "extra">>, <<GlobalRegex, GlobalRegex>>),
   make_object_validator(<<"extra", "name">>,
                         <<optional(number_validator), integer_validator>>)}

ElementValidators ==
  {string_validator, number_validator, integer_validator, GlobalRegex,
   PlainRegex, make_object_validator(<<"name">>, <<string_validator>>)}

Alternatives ==
  {string_validator, number_validator, make_exact_validator(Str("a")),
   GlobalRegex}

OneOfValidators ==
  {one_of(<<a, b>>) : a, b \in Alternatives}
    \cup {one_of(<<make_exact_validator(Str("a")), make_exact_validator(Num(30)),
                   null_validator>>),
          one_of(<<GlobalRegex, boolean_validator, GlobalRegex>>)}

Wrapped == Primitives \cup {PersonShape, make_array_validator(number_validator)}

Validators ==
  Primitives
    \cup ObjectValidators
    \cup {make_array_validator(e) : e \in ElementValidators}
    \cup {make_object_values_validator(e) : e \in ElementValidators}
    \cup OneOfValidators
    \cup {nullable(w) : w \in Wrapped}
    \cup {optional(w) : w \in Wrapped}

(***************************************************************************)
(* The state machine.  A validator (schema) is built and an input (body)   *)
(* arrives (Init); the caller then makes is_valid and get_messages calls   *)
(* on them, one after the other.  call records the last call made: the     *)
(* name passed, the lastIndex slots it started from (li0) and what it      *)
(* returned.                                                               *)
(***************************************************************************)
NoCall ==
  [op |-> "none", name |-> "", li0 |-> [re \in RegExpIds |-> 0], ok |-> FALSE,
   msgs |-> <<>>]

Init ==
  /\ schema \in Validators
  /\ body \in Inputs
  /\ lastIndex = [re \in RegExpIds |-> 0]
  /\ call = NoCall

\* schema.is_valid(body)
IsValidCall ==
  LET r == is_valid(schema, body, lastIndex)
  IN  /\ lastIndex' = r.li
      /\ call' = [op |-> "is_valid", name |-> "", li0 |-> lastIndex,
                  ok |-> r.ok, msgs |-> <<>>]
      /\ UNCHANGED <<schema, body>>

\* schema.get_messages(body, name)
GetMessagesCall(name) ==
  LET r == get_messages(schema, body, name, lastIndex)
  IN  /\ lastIndex' = r.li
      /\ call' = [op |-> "get_messages", name |-> name, li0 |-> lastIndex,
                  ok |-> FALSE, msgs |-> r.msgs]
      /\ UNCHANGED <<schema, body>>

Next ==
  \/ IsValidCall
  \/ \E name \in Names : GetMessagesCall(name)

Spec == Init /\ [][Next]_vars

TypeOK ==
  /\ schema \in Validators
  /\ body \in Inputs
  /\ lastIndex \in [RegExpIds -> 0..8]
  /\ call.op \in {"none", "is_valid", "get_messages"}

(***************************************************************************)
(* What the specification says of a validator, written apart from the      *)
(* code's helpers.  An expression such as child.is_valid(value) in a       *)
(* statement about a call denotes the result that call would give when     *)
(* made in the state the outer call started from (call.li0).               *)
(***************************************************************************)
Accepts(v, x) == is_valid(v, x, call.li0).ok

MessagesOf(v, x, name) == get_messages(v, x, name, call.li0).msgs

\* an object in the sense of the object-type test: an array counts, null does not
IsObjectInput(x) == x.t \in {"object", "array"}

OwnKeys(x) ==
  IF x.t = "array" THEN [i \in 1..Len(x.items) |-> ToString(i - 1)] ELSE x.keys

OwnValues(x) == IF x.t = "array" THEN x.items ELSE x.vals

\* the property names a shape declares
DeclaredKeys(shape) == {shape.keys[i] : i \in 1..Len(shape.keys)}

\* the input's keys that the shape does not declare, in input key order
UndeclaredKeys(shape, x) ==
  SelectSeq(OwnKeys(x), LAMBDA key : key \notin DeclaredKeys(shape))

\* the value stored under key, or undefined when the input has no such key
ValueOrUndefined(x, key) ==
  IF \E i \in 1..Len(OwnKeys(x)) : OwnKeys(x)[i] = key
  THEN OwnValues(x)[CHOOSE i \in 1..Len(OwnKeys(x)) : OwnKeys(x)[i] = key]
  ELSE Undefined

RECURSIVE Concat(_)
Concat(seqs) ==
  IF Len(seqs) = 0 THEN <<>> ELSE Head(seqs) \o Concat(Tail(seqs))

UnknownKeyMessage(name, key) ==
  "\"" \o name \o "\" should not have a property named \"" \o key \o "\" "

\* C1: consistency law: for every validator, input and name, is_valid(input)
\* is true exactly when get_messages(input, name) is the empty list.
ConsistencyLaw ==
  call.op = "get_messages" => (Accepts(schema, body) <=> call.msgs = <<>>)

\* C2: an object input with a key the shape does not declare is rejected by
\* is_valid, and get_messages holds the unknown-property message of each
\* such key.
UnknownKeyRejected ==
  (schema.k = "object" /\ IsObjectInput(body)
     /\ Len(UndeclaredKeys(schema, body)) > 0) =>
    /\ call.op = "is_valid" => ~call.ok
    /\ call.op = "get_messages" =>
         \A i \in 1..Len(UndeclaredKeys(schema, body)) :
           \E j \in 1..Len(call.msgs) :
             call.msgs[j] = UnknownKeyMessage(call.name,
                                              UndeclaredKeys(schema, body)[i])

\* C3: for an object input whose keys all belong to the shape, is_valid is
\* true exactly when every shape key's child accepts the value under that
\* key, a missing key being passed as undefined.
ObjectValidIffChildrenAccept ==
  (call.op = "is_valid" /\ schema.k = "object" /\ IsObjectInput(body)
     /\ Len(UndeclaredKeys(schema, body)) = 0) =>
    (call.ok <=>
       \A i \in 1..Len(schema.keys) :
         Accepts(schema.validators[i], ValueOrUndefined(body, schema.keys[i])))

\* C4: what get_messages of an object validator is expected to return
ExpectedObjectMessages(shape, x, name) ==
  IF ~IsObjectInput(x) THEN <<"\"" \o name \o "\" is not an object">>
  ELSE [i \in 1..Len(UndeclaredKeys(shape, x)) |->
          UnknownKeyMessage(name, UndeclaredKeys(shape, x)[i])]
       \o Concat([i \in 1..Len(shape.keys) |->
                    LET child == MessagesOf(shape.validators[i],
                                            ValueOrUndefined(x, shape.keys[i]),
                                            shape.keys[i])
                    IN  [j \in 1..Len(child) |->
                           "\"" \o name \o "\"." \o child[j]]])

\* C4: get_messages of an object validator is the unknown-property messages
\* in input key order, then each shape key's child messages in declaration
\* order, prefixed with the quoted name and a dot; a non-object input gives
\* the single message that it is not an object.
ObjectMessagesExact ==
  (call.op = "get_messages" /\ schema.k = "object") =>
    call.msgs = ExpectedObjectMessages(schema, body, call.name)

\* C4, the end-to-end scenario alone
SupermanMessages ==
  (call.op = "get_messages" /\ schema = HeroShape /\ body = Superman
     /\ call.name = "input") =>
    call.msgs = <<"\"input\".\"age\" is not a number",
                  "\"input\".\"powers\" is not an array">>

Reverse(seq) == [i \in 1..Len(seq) |-> seq[Len(seq) + 1 - i]]

\* C5: one_of(v1, ..., vk).is_valid(x) is true exactly when some alternative
\* accepts x, and the result is the same with the alternatives in another
\* order.
OneOfAcceptsIffSomeAlternative ==
  (call.op = "is_valid" /\ schema.k = "one_of") =>
    /\ call.ok <=>
         \E i \in 1..Len(schema.validators) :
           Accepts(schema.validators[i], body)
    /\ call.ok <=> Accepts(one_of(Reverse(schema.validators)), body)

\* C6: what get_messages of a one_of validator is expected to return
ExpectedOneOfMessages(validators, x, name) ==
  IF \E i \in 1..Len(validators) : Accepts(validators[i], x) THEN <<>>
  ELSE <<"\"" \o name \o "\": "
           \o Join(Concat([i \in 1..Len(validators) |->
                             MessagesOf(validators[i], x, name)]),
                   ", or ")>>

\* C6: when no alternative accepts x, get_messages is the single string made
\* of the quoted name, ': ', and the messages of all the alternatives, in
\* alternative order, joined with ', or '; when some alternative accepts x
\* it is the empty list.
OneOfMessagesExact ==
  (call.op = "get_messages" /\ schema.k = "one_of") =>
    call.msgs = ExpectedOneOfMessages(schema.validators, body, call.name)

\* C7: optional(v).is_valid(x) is true exactly when v accepts x or x is
\* undefined, and nullable(v).is_valid(x) exactly when v accepts x or x is
\* null; so when v accepts neither, optional(v) accepts undefined and rejects
\* null, and nullable(v) accepts null and rejects undefined.
OptionalNullableValidity ==
  call.op = "is_valid" =>
    \A w \in Wrapped :
      /\ schema = optional(w) =>
           (call.ok <=> (Accepts(w, body) \/ body.t = "undefined"))
      /\ schema = nullable(w) =>
           (call.ok <=> (Accepts(w, body) \/ body.t = "null"))
      /\ (~Accepts(w, Null) /\ ~Accepts(w, Undefined)) =>
           /\ (schema = optional(w) /\ body.t = "undefined") => call.ok
           /\ (schema = optional(w) /\ body.t = "null") => ~call.ok
           /\ (schema = nullable(w) /\ body.t = "null") => call.ok
           /\ (schema = nullable(w) /\ body.t = "undefined") => ~call.ok

\* C7 witness: optional(number) has accepted undefined, which number rejects
OptionalAcceptedUndefined ==
  /\ call.op = "is_valid"
  /\ schema = optional(number_validator)
  /\ body.t = "undefined"
  /\ call.ok
  /\ ~Accepts(number_validator, body)

\* C8: array(e).is_valid(x) is false when x is not an array; for an array it
\* is true exactly when e accepts every element, so the empty array is valid
\* and one rejected element makes the array invalid.
ArrayValidIffElementsAccepted ==
  (call.op = "is_valid" /\ schema.k = "array") =>
    (call.ok <=>
       /\ body.t = "array"
       /\ \A i \in 1..Len(body.items) :
            Accepts(schema.element_validator, body.items[i]))

\* C9: what get_messages of an array validator is expected to return
ExpectedArrayMessages(element_validator, x, name) ==
  IF x.t # "array" THEN <<"\"" \o name \o "\" is not an array">>
  ELSE Concat([i \in 1..Len(x.items) |->
                 MessagesOf(element_validator, x.items[i],
                            name \o "[" \o ToString(i - 1) \o "]")])

\* C9: array(e).get_messages(x, n) is the single not-an-array message when x
\* is not an array; for an array it is the concatenation, in ascending index
\* order, of e.get_messages(x[i], "n[i]"), and empty for the empty array.
ArrayMessagesExact ==
  (call.op = "get_messages" /\ schema.k = "array") =>
    call.msgs = ExpectedArrayMessages(schema.element_validator, body, call.name)

\* C10: object_values(e) agrees with array(e) run on the input's values: a
\* non-object input is invalid with the single not-an-object message; for an
\* object o, is_valid(o) is array(e).is_valid(values(o)) and
\* get_messages(o, n) is array(e).get_messages(values(o), n), whatever the
\* keys; the empty object is valid.
ObjectValuesAgreesWithArray ==
  schema.k = "object_values" =>
    LET array_validator == make_array_validator(schema.element_validator)
    IN  /\ call.op = "is_valid" =>
             (call.ok <=>
                /\ IsObjectInput(body)
                /\ Accepts(array_validator, Arr(OwnValues(body))))
        /\ call.op = "get_messages" =>
             call.msgs =
               IF IsObjectInput(body)
               THEN MessagesOf(array_validator, Arr(OwnValues(body)), call.name)
               ELSE <<"\"" \o call.name \o "\" is not an object">>
        /\ (call.op = "is_valid" /\ body = Obj(<<>>, <<>>)) => call.ok

\* C10 witness: object_values(string) has rejected an object holding a
\* number, with the message array(string) gives for its values
ObjectValuesRejectedAValue ==
  /\ call.op = "get_messages"
  /\ schema = make_object_values_validator(string_validator)
  /\ body = Obj(<<"name", "extra">>, <<Str("a"), Num(30)>>)
  /\ call.name = "n"
  /\ call.msgs = <<"\"n[1]\" is not a string">>

(***************************************************************************)
(* The same calls on the validators and inputs that meet neither a RegExp  *)
(* with the g flag nor a property name inherited from Object.prototype.    *)
(* Under SpecPlain the statements C2-C6, C8, C9 and C11 hold: they fail    *)
(* under Spec through those two behaviours of the code and nothing else.   *)
(***************************************************************************)
RECURSIVE UsesGlobalFlag(_)
UsesGlobalFlag(v) ==
  CASE v.k = "regex" -> RegExps[v.re].flags = "g"
    [] v.k \in {"array", "object_values"} -> UsesGlobalFlag(v.element_validator)
    [] v.k \in {"object", "one_of"} ->
         \E i \in 1..Len(v.validators) : UsesGlobalFlag(v.validators[i])
    [] OTHER -> FALSE

UsesInheritedName(v, x) ==
  \/ v.k = "object" /\ DeclaredKeys(v) \cap ObjectPrototypeKeys # {}
  \/ x.t = "object" /\ Range(x.keys) \cap ObjectPrototypeKeys # {}

InitPlain ==
  /\ Init
  /\ ~UsesGlobalFlag(schema)
  /\ ~UsesInheritedName(schema, body)

SpecPlain == InitPlain /\ [][Next]_vars

\* the lastIndex slots of the RegExps as they are built
FreshLastIndex == [re \in RegExpIds |-> 0]

\* C11: idempotence: however many is_valid / get_messages calls were made
\* before it with the same validator and input, a call returns what it
\* returns on the validator as built, so the same result on every call.
Idempotence ==
  /\ call.op = "is_valid" =>
       call.ok = is_valid(schema, body, FreshLastIndex).ok
  /\ call.op = "get_messages" =>
       call.msgs = get_messages(schema, body, call.name, FreshLastIndex).msgs

\* C11, its last part: no call leaves a change in the validator tree
ValidatorTreeUnchanged == lastIndex = FreshLastIndex

\* C2-C6, C8, C9 and C11 together, for SpecPlain
PlainStatements ==
  /\ UnknownKeyRejected
  /\ ObjectValidIffChildrenAccept
  /\ ObjectMessagesExact
  /\ OneOfAcceptsIffSomeAlternative
  /\ OneOfMessagesExact
  /\ ArrayValidIffElementsAccepted
  /\ ArrayMessagesExact
  /\ Idempotence
  /\ ValidatorTreeUnchanged

\* C12: a regex validator built with a custom_message returns exactly
\* [custom_message] from get_messages for every input is_valid rejects,
\* whatever the name and whatever string the custom_message is, and [] for
\* every input it accepts.
CustomMessageVerbatim ==
  (call.op = "get_messages" /\ schema.k = "regex"
     /\ schema.custom_message.t = "string") =>
    call.msgs =
      IF Accepts(schema, body) THEN <<>> ELSE <<schema.custom_message.s>>

\* C12 for the custom messages that are not the empty string
NonEmptyCustomMessageVerbatim ==
  (schema.k = "regex" /\ schema.custom_message.t = "string"
     /\ schema.custom_message.s # "") =>
    CustomMessageVerbatim

\* a number with no fractional part (numbers are kept in tenths)
WholeNumber(x) == x.t = "number" /\ x.n % 10 = 0

\* C13: the integer validator accepts exactly the numbers with no fractional
\* part; its get_messages returns the single message '"n" is not an integer'
\* for every input it rejects and the empty list for every input it accepts.
IntegerExact ==
  schema = integer_validator =>
    /\ call.op = "is_valid" => (call.ok <=> WholeNumber(body))
    /\ call.op = "get_messages" =>
         call.msgs =
           IF WholeNumber(body) THEN <<>>
           ELSE <<"\"" \o call.name \o "\" is not an integer">>

\* C13, the is_valid half and the inputs that are not numbers with a
\* fractional part
IntegerExactButFractions ==
  (body.t = "number" => WholeNumber(body)) => IntegerExact

====
